---- MODULE Spec2Model ----
(***************************************************************************)
(* Model of cmd/onboard.go: the onboard command's device-state gate (RunE),*)
(* its TO1/TO2 failover walk (doOnboard, transferOwnership,                *)
(* transferOwnership2), the service-info modules it offers, the download   *)
(* path mapping (NameToPath) and the upload file system (fsVar).           *)
(*                                                                         *)
(* Go pointers are modelled as sequences of length 0 (nil) or 1 (non-nil). *)
(* Every call that blocks on the network or on the timer is one action;    *)
(* the straight-line code between two such calls belongs to the action of  *)
(* the call it follows.                                                    *)
(***************************************************************************)
EXTENDS Integers, Sequences, FiniteSets, TLC

VARIABLES
    directives,     \* protocol.ParseDeviceRvInfo(rvInfo): the directive list
    rvOnly,         \* the --rv-only flag
    cancelled,      \* ctx.Done() is closed
    cancelAtStart,  \* history: ctx was already done when doOnboard began
    pc,             \* "cmd" | "start" | "to1" | "delay" | "to2" | "done"
    d,              \* index of the directive the TO1 loop is at
    u,              \* index of the URL the TO1 loop is at, within directive d
    to1d,           \* the redirection blob pointer (nil or one blob)
    to2URLs,        \* the transfer-candidate list
    t,              \* index of the candidate the TO2 loop is at
    to1Log,         \* history: the fdo.TO1 calls made, in call order
    to2Log,         \* history: the fdo.TO2 calls made, in call order
    newDC,          \* what transferOwnership returned (nil or one credential)
    exit,           \* history: line of the return statement transferOwnership took
    stdout,         \* what doOnboard/transferOwnership printed, in order
    storedCred,     \* the credential held by the credential store
    deviceState,    \* the device-lifecycle state held by the credential store
    updateCredCalls,\* history: number of updateCred calls
    err,            \* what doOnboard (RunE, when it returns before) returned
    waited,         \* time units the select of the delay has been blocked for
    delayLog,       \* history: the selects of the delay entered, with how each ended
    stuck,          \* the fdo.TO1/fdo.TO2 call in progress never returns
    lastTO2,        \* history: how the last fdo.TO2 call ended
    fsims,          \* conf.DeviceModules of the last transferOwnership2 call
    dlDir,          \* the --download flag
    echoCmds,       \* the --echo-commands flag
    uploads,        \* the --upload flag: the fsVar mapping name -> real path
    wgetDir,        \* the --wget-dir flag
    resale,         \* the --resale flag
    deviceStatus,   \* what loadDeviceStatus returned to RunE ("" before)
    call            \* history: the last call of a pure function, with its result

vars == <<directives, rvOnly, cancelled, cancelAtStart, pc, d, u, to1d, to2URLs, t,
          to1Log, to2Log, newDC, exit, stdout, storedCred, deviceState,
          updateCredCalls, err, waited, delayLog, stuck, lastTO2, fsims,
          dlDir, echoCmds, uploads, wgetDir, resale, deviceStatus, call>>

\* The flags and the device status RunE hands to doOnboard, and the record
\* of the pure calls: nothing of the walk writes them.
cfgVars == <<dlDir, echoCmds, uploads, wgetDir, resale, deviceStatus, call>>

\* The flags and the device status alone.
flagVars == <<dlDir, echoCmds, uploads, wgetDir, resale, deviceStatus>>

\* What RunE and the walk write.
walkVars == <<directives, rvOnly, cancelled, cancelAtStart, pc, d, u, to1d, to2URLs, t,
              to1Log, to2Log, newDC, exit, stdout, storedCred, deviceState,
              updateCredCalls, err, waited, delayLog, stuck, lastTO2, fsims>>

(***************************************************************************)
(* Bounds and input pools                                                  *)
(***************************************************************************)
MaxDirectives == 2

\* Directive URLs as ParseDeviceRvInfo builds them (url.URL{Scheme, Host}).
RvURL1 == [Scheme |-> "https", Host |-> "owner.example:443"]
RvURL2 == [Scheme |-> "http", Host |-> "rv.example:80"]

URLLists == {<<>>, <<RvURL1>>, <<RvURL1, RvURL2>>, <<RvURL2>>}

Delays == {0, 5}

Directives == [Bypass : BOOLEAN, URLs : URLLists, Delay : Delays]

RECURSIVE SeqsUpTo(_, _)
SeqsUpTo(S, n) ==
    IF n = 0 THEN {<<>>}
    ELSE LET shorter == SeqsUpTo(S, n - 1)
         IN  shorter \cup {Append(s, x) : s \in {q \in shorter : Len(q) = n - 1}, x \in S}

DirectiveLists == SeqsUpTo(Directives, MaxDirectives)

\* Names for which net.LookupHost succeeds.
ResolvableNames == {"owner.example"}

\* Owner addresses of a redirection blob (protocol.RvTO2Addr).
AddrBoth == [DNSAddress |-> <<"owner.example">>, IPAddress |-> << <<192, 0, 2, 1>> >>,
             TransportProtocol |-> "HTTPS", Port |-> 0]
AddrIPOnly == [DNSAddress |-> <<"gone.example">>, IPAddress |-> << <<192, 0, 2, 1>> >>,
               TransportProtocol |-> "HTTP", Port |-> 8080]
AddrNone == [DNSAddress |-> <<>>, IPAddress |-> <<>>,
             TransportProtocol |-> "HTTPS", Port |-> 0]
AddrTCP == [DNSAddress |-> <<"owner.example">>, IPAddress |-> <<>>,
            TransportProtocol |-> "TCP", Port |-> 0]

AddrBadIP == [DNSAddress |-> <<>>, IPAddress |-> << <<192, 0, 2>> >>,
              TransportProtocol |-> "HTTPS", Port |-> 0]

\* The owner-address lists (to1d.Payload.Val.RV) a rendezvous server answers with.
Blobs == {<<>>, <<AddrBoth>>, <<AddrIPOnly, AddrBoth>>, <<AddrNone, AddrIPOnly>>,
          <<AddrTCP, AddrBadIP>>}

\* Every owner address over these field values (TransportProtocol: the
\* RvProt values; IPAddress: nil, two IPv4 addresses, an empty address and
\* three bytes that are no address).
To2Addrs ==
    [DNSAddress : {<<>>, <<"owner.example">>, <<"gone.example">>},
     IPAddress : {<<>>, << <<192, 0, 2, 1>> >>, << <<10, 0, 0, 255>> >>,
                  << <<>> >>, << <<192, 0, 2>> >>},
     TransportProtocol : {"TCP", "TLS", "HTTP", "CoAP", "HTTPS", "CoAPS"},
     Port : {0, 8080, 65535}]

OldCred == "dc"
NewCred == "dc'"

\* The longest file name, in elements, a service-info peer sends.
MaxNameParts == 3

\* The elements of the names a peer sends.
NameParts == {"..", ".", "", "etc", "passwd"}

\* The longest path, in elements, a service-info peer asks the upload
\* file system for.
MaxOpenParts == 3

\* The elements of the paths a peer asks for.
OpenParts == {"uploads", "reports", "q1.csv", "..", "etc", "shadow"}

\* The device-lifecycle states printDeviceStatus knows, and one it does not.
DeviceStates == {"PRE_DI", "PRE_TO1", "IDLE", "RESALE", "ERROR", "UNKNOWN"}

\* The values of --upload.
UploadFlags == {"uploads", "uploads/reports", "../data,/srv/files", ".", "/"}

\* The values of --download and of --wget-dir.
DownloadDirs == {"", "/data/downloads"}
WgetDirs == {"", "/data/wget"}

(***************************************************************************)
(* Pure helpers                                                            *)
(***************************************************************************)
\* url.URL.String() for a URL that has only a scheme and a host.
URLString(url) == url.Scheme \o "://" \o url.Host

Digit(n) ==
    CASE n = 0 -> "0" [] n = 1 -> "1" [] n = 2 -> "2" [] n = 3 -> "3" [] n = 4 -> "4"
      [] n = 5 -> "5" [] n = 6 -> "6" [] n = 7 -> "7" [] n = 8 -> "8" [] n = 9 -> "9"

\* strconv.Itoa for a non-negative number.
RECURSIVE Itoa(_)
Itoa(n) == IF n < 10 THEN Digit(n) ELSE Itoa(n \div 10) \o Digit(n % 10)

Contains(s, c) == \E i \in 1..Len(s) : SubSeq(s, i, i) = c

\* net.JoinHostPort: a host holding a colon or a percent sign is bracketed.
JoinHostPort(host, port) ==
    IF Contains(host, ":") \/ Contains(host, "%")
    THEN "[" \o host \o "]:" \o port
    ELSE host \o ":" \o port

HexDigit(n) ==
    IF n < 10 THEN Digit(n)
    ELSE CASE n = 10 -> "a" [] n = 11 -> "b" [] n = 12 -> "c"
           [] n = 13 -> "d" [] n = 14 -> "e" [] n = 15 -> "f"

RECURSIVE HexString(_)
HexString(bytes) ==
    IF bytes = <<>> THEN ""
    ELSE HexDigit(Head(bytes) \div 16) \o HexDigit(Head(bytes) % 16) \o HexString(Tail(bytes))

\* net.IP.String() for the byte lengths of the input pools: "<nil>" for an
\* empty address, dotted decimal for four bytes, "?" and the hexadecimal
\* bytes for a length that is no address length.  (Sixteen-byte addresses
\* are outside the pools.)
IPString(ip) ==
    IF Len(ip) = 0 THEN "<nil>"
    ELSE IF Len(ip) = 4
    THEN Itoa(ip[1]) \o "." \o Itoa(ip[2]) \o "." \o Itoa(ip[3]) \o "." \o Itoa(ip[4])
    ELSE "?" \o HexString(ip)

RECURSIVE Split(_, _)
Split(s, c) ==
    IF ~Contains(s, c) THEN <<s>>
    ELSE LET i == CHOOSE k \in 1..Len(s) :
                      SubSeq(s, k, k) = c /\ \A j \in 1..(k - 1) : SubSeq(s, j, j) # c
         IN  <<SubSeq(s, 1, i - 1)>> \o Split(SubSeq(s, i + 1, Len(s)), c)

DecDigits == {"0", "1", "2", "3", "4", "5", "6", "7", "8", "9"}

DigitVal(c) == CHOOSE n \in 0..9 : Digit(n) = c

RECURSIVE Atoi(_)
Atoi(s) ==
    IF Len(s) = 0 THEN 0
    ELSE 10 * Atoi(SubSeq(s, 1, Len(s) - 1)) + DigitVal(SubSeq(s, Len(s), Len(s)))

\* One field of a dotted-decimal IPv4 literal as net.ParseIP accepts it:
\* one to three digits, no leading zero, at most 255.
ValidOctet(f) ==
    /\ Len(f) \in 1..3
    /\ \A i \in 1..Len(f) : SubSeq(f, i, i) \in DecDigits
    /\ (Len(f) > 1 => SubSeq(f, 1, 1) # "0")
    /\ Atoi(f) <= 255

\* isValidIP: net.ParseIP(ip) != nil, for strings without a colon (the
\* pools hold no IPv6 literal): four valid fields separated by dots.
isValidIP(ip) ==
    /\ ~Contains(ip, ":")
    /\ Contains(ip, ".")
    /\ LET fields == Split(ip, ".")
       IN  Len(fields) = 4 /\ \A i \in 1..4 : ValidOctet(fields[i])

\* isResolvableDNS: net.LookupHost(dns) succeeds.
isResolvableDNS(dns) == dns \in ResolvableNames

(***************************************************************************)
(* path/filepath and io/fs on slash-separated paths                        *)
(***************************************************************************)
RECURSIVE JoinStrings(_, _)
\* strings.Join
JoinStrings(elems, sep) ==
    IF elems = <<>> THEN ""
    ELSE IF Len(elems) = 1 THEN elems[1]
    ELSE elems[1] \o sep \o JoinStrings(Tail(elems), sep)

HasPrefix(s, prefix) == Len(s) >= Len(prefix) /\ SubSeq(s, 1, Len(prefix)) = prefix

\* filepath.IsAbs
IsAbs(path) == HasPrefix(path, "/")

\* The element list filepath.Clean keeps: empty elements and "." are
\* dropped; ".." removes the element before it, is kept at the start of
\* a path that is not rooted, and is dropped at the root.
RECURSIVE CleanParts(_, _, _)
CleanParts(parts, rooted, out) ==
    IF parts = <<>> THEN out
    ELSE LET p == Head(parts)
         IN  IF p = "" \/ p = "." THEN CleanParts(Tail(parts), rooted, out)
             ELSE IF p = ".."
             THEN IF out # <<>> /\ out[Len(out)] # ".."
                  THEN CleanParts(Tail(parts), rooted, SubSeq(out, 1, Len(out) - 1))
                  ELSE IF rooted THEN CleanParts(Tail(parts), rooted, out)
                  ELSE CleanParts(Tail(parts), rooted, Append(out, ".."))
             ELSE CleanParts(Tail(parts), rooted, Append(out, p))

\* filepath.Clean
Clean(path) ==
    IF path = "" THEN "."
    ELSE LET kept == JoinStrings(CleanParts(Split(path, "/"), IsAbs(path), <<>>), "/")
         IN  IF IsAbs(path) THEN "/" \o kept
             ELSE IF kept = "" THEN "." ELSE kept

\* filepath.Join: the elements from the first one that is not empty,
\* joined by slashes and cleaned.
RECURSIVE Join(_)
Join(elem) ==
    IF elem = <<>> THEN ""
    ELSE IF Head(elem) = "" THEN Join(Tail(elem))
    ELSE Clean(JoinStrings(elem, "/"))

RECURSIVE TrimSlashes(_)
TrimSlashes(path) ==
    IF Len(path) > 0 /\ SubSeq(path, Len(path), Len(path)) = "/"
    THEN TrimSlashes(SubSeq(path, 1, Len(path) - 1))
    ELSE path

\* strings.LastIndex(path, "/") + 1: 0 when path holds no slash.
LastSlash(path) ==
    IF Contains(path, "/")
    THEN CHOOSE i \in 1..Len(path) :
             SubSeq(path, i, i) = "/" /\ \A j \in (i + 1)..Len(path) : SubSeq(path, j, j) # "/"
    ELSE 0

\* filepath.Base
Base(path) ==
    IF path = "" THEN "."
    ELSE LET trimmed == TrimSlashes(path)
             last == SubSeq(trimmed, LastSlash(trimmed) + 1, Len(trimmed))
         IN  IF last = "" THEN "/" ELSE last

\* filepath.Dir
Dir(path) == Clean(SubSeq(path, 1, LastSlash(path)))

\* The working directory of the process.
Getwd == "/work"

\* filepath.Abs
Abs(path) == IF IsAbs(path) THEN Clean(path) ELSE Join(<<Getwd, path>>)

\* fs.ValidPath: "." or slash-separated elements none of which is empty,
\* "." or "..".
ValidPath(name) ==
    \/ name = "."
    \/ LET elems == Split(name, "/")
       IN  \A i \in 1..Len(elems) : elems[i] \notin {"", ".", ".."}

(***************************************************************************)
(* fsVar: the upload file system                                           *)
(***************************************************************************)
\* The loop of pathToName that drops the ".." and "." at the start.
RECURSIVE DropDots(_)
DropDots(pathparts) ==
    IF pathparts # <<>> /\ Head(pathparts) \in {"..", "."}
    THEN DropDots(Tail(pathparts))
    ELSE pathparts

\* pathToName: the name a path is registered and looked up under.
pathToName(path, abs) ==
    LET cleaned == Clean(path)
    IN  IF SubSeq(path, 1, 1) = "/" THEN cleaned
        ELSE LET pathparts == DropDots(Split(cleaned, "/"))
             IN  IF pathparts = <<>> /\ abs # "" THEN Join(<<Base(abs)>>)
                 ELSE Join(pathparts)

\* files[name] = abs
Put(files, name, abs) ==
    [k \in DOMAIN files \cup {name} |-> IF k = name THEN abs ELSE files[k]]

\* The loop of fsVar.Set over the paths of one flag value.
RECURSIVE SetPaths(_, _)
SetPaths(files, paths) ==
    IF paths = <<>> THEN files
    ELSE SetPaths(Put(files, pathToName(Head(paths), Abs(Head(paths))), Abs(Head(paths))),
                  Tail(paths))

\* fsVar.Set
Set(files, paths) == SetPaths(files, Split(paths, ","))

\* Mutant of AncestorMatch: the walk ends at the registered directory
\* nearest to the root.
RECURSIVE AncestorMatchOutermost(_, _)
AncestorMatchOutermost(files, dir) ==
    IF dir = "/" \/ dir = "." THEN <<>>
    ELSE IF AncestorMatchOutermost(files, Dir(dir)) # <<>>
    THEN AncestorMatchOutermost(files, Dir(dir))
    ELSE IF dir \in DOMAIN files THEN <<files[dir]>>
    ELSE <<>>

\* The for loop of fsVar.Open from dir upward: the real path of the first
\* directory found registered, none when the walk arrives at "/" or ".".
RECURSIVE AncestorMatch(_, _)
AncestorMatch(files, dir) ==
    IF dir = "/" \/ dir = "." THEN <<>>
    ELSE IF dir \in DOMAIN files THEN <<files[dir]>>
    ELSE AncestorMatch(files, Dir(dir))

\* Mutant of Lookup: a name that is not registered stands for itself.
LookupOrItself(files, name) ==
    IF name \in DOMAIN files THEN <<files[name]>>
    ELSE IF AncestorMatch(files, Dir(name)) # <<>> THEN AncestorMatch(files, Dir(name))
    ELSE <<name>>

\* fsVar.Open after the root check: the real path registered for name or
\* for a directory above it.
Lookup(files, name) ==
    IF name \in DOMAIN files THEN <<files[name]>>
    ELSE AncestorMatch(files, Dir(name))

\* Mutant of OpenValidPath: rooted paths pass the check.
OpenValidPathAllowsRooted(path) ==
    ValidPath(path) \/ (IsAbs(path) /\ ValidPath(SubSeq(path, 2, Len(path))))

\* The check fsVar.Open begins with.
OpenValidPath(path) == ValidPath(path)

\* fsVar.Open up to its os.Open call: the error it returns without one,
\* else the path it hands to os.Open.
Open(files, path) ==
    IF ~OpenValidPath(path) THEN [err |-> "fs.ErrInvalid", osOpen |-> <<>>]
    ELSE IF "/" \in DOMAIN files THEN [err |-> "", osOpen |-> <<Clean(path)>>]
    ELSE LET found == Lookup(files, pathToName(path, ""))
         IN  IF found = <<>> THEN [err |-> "fs.ErrNotExist", osOpen |-> <<>>]
             ELSE [err |-> "", osOpen |-> <<Clean(found[1])>>]

(***************************************************************************)
(* transferOwnership2: NameToPath of the download and the wget module      *)
(***************************************************************************)
\* The NameToPath closures of fsim.Download (dir is dlDir) and fsim.Wget
\* (dir is wgetDir).
NameToPath(dir, name) ==
    LET cleanName == Clean(name)
    IN  IF ~IsAbs(cleanName) THEN Join(<<dir, cleanName>>)
        ELSE Join(<<dir, Base(cleanName)>>)

(***************************************************************************)
(* transferOwnership: the candidate list                                   *)
(***************************************************************************)
RECURSIVE URLStrings(_)
URLStrings(urls) ==
    IF urls = <<>> THEN <<>> ELSE <<URLString(Head(urls))>> \o URLStrings(Tail(urls))

\* The first loop of transferOwnership: the URLs of the bypass directives.
RECURSIVE BypassURLs(_)
BypassURLs(dirs) ==
    IF dirs = <<>> THEN <<>>
    ELSE (IF Head(dirs).Bypass THEN URLStrings(Head(dirs).URLs) ELSE <<>>)
         \o BypassURLs(Tail(dirs))

\* Mutant of To2AddrURLs: the IP address comes before the DNS name, and
\* the port of the address is used even when it is zero.
To2AddrURLsIPFirst(to2Addr) ==
    IF to2Addr.DNSAddress = <<>> /\ to2Addr.IPAddress = <<>> THEN <<>>
    ELSE IF to2Addr.TransportProtocol \notin {"HTTP", "HTTPS"} THEN <<>>
    ELSE LET scheme == IF to2Addr.TransportProtocol = "HTTP" THEN "http://" ELSE "https://"
             port == Itoa(to2Addr.Port)
             dnsURLs == IF to2Addr.DNSAddress # <<>> /\ isResolvableDNS(to2Addr.DNSAddress[1])
                        THEN <<scheme \o JoinHostPort(to2Addr.DNSAddress[1], port)>>
                        ELSE <<>>
             ipURLs == IF to2Addr.IPAddress # <<>> /\ isValidIP(IPString(to2Addr.IPAddress[1]))
                       THEN <<scheme \o JoinHostPort(IPString(to2Addr.IPAddress[1]), port)>>
                       ELSE <<>>
         IN  ipURLs \o dnsURLs

\* The body of the loop over to1d.Payload.Val.RV: the URLs one owner
\* address contributes.
To2AddrURLs(to2Addr) ==
    IF to2Addr.DNSAddress = <<>> /\ to2Addr.IPAddress = <<>> THEN <<>>
    ELSE IF to2Addr.TransportProtocol \notin {"HTTP", "HTTPS"} THEN <<>>
    ELSE LET scheme == IF to2Addr.TransportProtocol = "HTTP" THEN "http://" ELSE "https://"
             port == IF to2Addr.Port # 0 THEN Itoa(to2Addr.Port)
                     ELSE IF to2Addr.TransportProtocol = "HTTP" THEN "80" ELSE "443"
             dnsURLs == IF to2Addr.DNSAddress # <<>> /\ isResolvableDNS(to2Addr.DNSAddress[1])
                        THEN <<scheme \o JoinHostPort(to2Addr.DNSAddress[1], port)>>
                        ELSE <<>>
             ipURLs == IF to2Addr.IPAddress # <<>> /\ isValidIP(IPString(to2Addr.IPAddress[1]))
                       THEN <<scheme \o JoinHostPort(IPString(to2Addr.IPAddress[1]), port)>>
                       ELSE <<>>
         IN  dnsURLs \o ipURLs

RECURSIVE RVURLs(_)
RVURLs(rv) == IF rv = <<>> THEN <<>> ELSE To2AddrURLs(Head(rv)) \o RVURLs(Tail(rv))

\* The URLs appended for the blob: none when to1d is nil.
BlobURLs(blob) == IF blob = <<>> THEN <<>> ELSE RVURLs(blob[1].RV)

(***************************************************************************)
(* transferOwnership2: the service-info modules                            *)
(***************************************************************************)
\* An fsVar without an entry, a module map without an entry, no call made.
NoFiles == [name \in {} |-> ""]
NoModules == [name \in {} |-> ""]
NoCall == [fn |-> "", arg |-> <<>>, ret |-> <<>>]

\* Mutant of DeviceModuleNames: the download module is offered when either
\* directory flag is set.
DeviceModuleNamesShared(dl, echo, up, wget) ==
    {"fido_alliance"}
        \cup (IF dl # "" \/ wget # "" THEN {"fdo.download"} ELSE {})
        \cup (IF echo THEN {"fdo.command"} ELSE {})
        \cup (IF Cardinality(DOMAIN up) > 0 THEN {"fdo.upload"} ELSE {})
        \cup (IF wget # "" THEN {"fdo.wget"} ELSE {})

\* The keys of the fsims map transferOwnership2 builds.
DeviceModuleNames(dl, echo, up, wget) ==
    {"fido_alliance"}
        \cup (IF dl # "" THEN {"fdo.download"} ELSE {})
        \cup (IF echo THEN {"fdo.command"} ELSE {})
        \cup (IF Cardinality(DOMAIN up) > 0 THEN {"fdo.upload"} ELSE {})
        \cup (IF wget # "" THEN {"fdo.wget"} ELSE {})

\* The module value stored under a key.
DeviceModuleType(name) ==
    CASE name = "fido_alliance" -> "fsim.Interop"
      [] name = "fdo.download" -> "fsim.Download"
      [] name = "fdo.command" -> "fsim.Command"
      [] name = "fdo.upload" -> "fsim.Upload"
      [] name = "fdo.wget" -> "fsim.Wget"

\* The fsims map of the n-th transferOwnership2 call: a new map whose
\* values are allocated by this call.
DeviceModules(dl, echo, up, wget, n) ==
    [name \in DeviceModuleNames(dl, echo, up, wget) |->
        [module |-> DeviceModuleType(name), allocatedBy |-> n]]

(***************************************************************************)
(* The state machine                                                       *)
(***************************************************************************)
\* No flag of the service-info modules is given, and --resale is not.
NoFlags ==
    /\ dlDir = ""
    /\ echoCmds = FALSE
    /\ uploads = NoFiles
    /\ wgetDir = ""
    /\ resale = FALSE

\* RunE has loaded the device status PRE_TO1 and is about to call doOnboard.
AtDoOnboard ==
    /\ pc = "start"
    /\ deviceState = "PRE_TO1"
    /\ deviceStatus = "PRE_TO1"

\* Nothing of the walk has happened.
NothingDone ==
    /\ cancelled = FALSE
    /\ cancelAtStart = FALSE
    /\ d = 1
    /\ u = 1
    /\ to1d = <<>>
    /\ to2URLs = <<>>
    /\ t = 1
    /\ to1Log = <<>>
    /\ to2Log = <<>>
    /\ newDC = <<>>
    /\ exit = ""
    /\ stdout = <<>>
    /\ storedCred = <<OldCred>>
    /\ updateCredCalls = 0
    /\ err = ""
    /\ waited = 0
    /\ delayLog = <<>>
    /\ stuck = FALSE
    /\ lastTO2 = ""
    /\ fsims = NoModules
    /\ call = NoCall

Init ==
    /\ directives \in DirectiveLists
    /\ rvOnly \in BOOLEAN
    /\ AtDoOnboard
    /\ NothingDone
    /\ NoFlags

\* updateCred(newDC, state): the credential store saves both.
updateCred(dc, state) ==
    /\ storedCred' = dc
    /\ deviceState' = state
    /\ updateCredCalls' = updateCredCalls + 1

\* Mutant of doOnboardOutcome: the nil check on the result is missing.
doOnboardOutcomeNoNilCheck(rv, dc) ==
    IF rv THEN "rvOnly" ELSE "FIDO Device Onboard Complete"

\* Mutant of doOnboardOutcome: nothing is printed when the result is nil.
doOnboardOutcomeSilent(rv, dc) ==
    IF rv \/ dc = <<>> THEN "rvOnly" ELSE "FIDO Device Onboard Complete"

\* The tail of doOnboard, after transferOwnership returned dc.
doOnboardOutcome(rv, dc) ==
    IF rv THEN "rvOnly"
    ELSE IF dc = <<>> THEN "Credential not updated"
    ELSE "FIDO Device Onboard Complete"

\* transferOwnership returns dc through the return statement `line`, and
\* doOnboard finishes: nothing more when rvOnly, a message when dc is nil,
\* else a message and updateCred.  `out` is what was printed before.
Return(dc, line, out) ==
    /\ pc' = "done"
    /\ newDC' = dc
    /\ exit' = line
    /\ err' = ""
    /\ IF doOnboardOutcome(rvOnly, dc) = "rvOnly"
       THEN /\ stdout' = out
            /\ UNCHANGED <<storedCred, deviceState, updateCredCalls>>
       ELSE IF doOnboardOutcome(rvOnly, dc) = "Credential not updated"
       THEN /\ stdout' = Append(out, [text |-> "Credential not updated", blob |-> <<>>])
            /\ UNCHANGED <<storedCred, deviceState, updateCredCalls>>
       ELSE /\ stdout' = Append(out, [text |-> "FIDO Device Onboard Complete", blob |-> <<>>])
            /\ updateCred(dc, "IDLE")

\* Mutant of TO1Pos: the TO1 loop does not skip bypass directives.
RECURSIVE TO1PosTriesBypass(_, _, _, _)
TO1PosTriesBypass(dirs, di, ui, done) ==
    IF di > Len(dirs) THEN [pc |-> "over", d |-> di, u |-> 1]
    ELSE IF ui <= Len(dirs[di].URLs) THEN [pc |-> "to1", d |-> di, u |-> ui]
    ELSE IF dirs[di].Delay # 0
    THEN [pc |-> IF done THEN "ctx.Done" ELSE "delay", d |-> di, u |-> ui]
    ELSE TO1PosTriesBypass(dirs, di + 1, 1, done)

\* Mutant of TO1Pos: a URL whose attempt failed is tried again.
RECURSIVE TO1PosRetries(_, _, _, _)
TO1PosRetries(dirs, di, ui, done) ==
    IF di > Len(dirs) THEN [pc |-> "over", d |-> di, u |-> 1]
    ELSE IF dirs[di].Bypass THEN TO1PosRetries(dirs, di + 1, 1, done)
    ELSE IF ui > 1 THEN [pc |-> "to1", d |-> di, u |-> ui - 1]
    ELSE IF ui <= Len(dirs[di].URLs) THEN [pc |-> "to1", d |-> di, u |-> ui]
    ELSE IF dirs[di].Delay # 0
    THEN [pc |-> IF done THEN "ctx.Done" ELSE "delay", d |-> di, u |-> ui]
    ELSE TO1PosRetries(dirs, di + 1, 1, done)

\* Where the TO1 loop blocks next, from the head of the inner loop at URL ui
\* of directive di: at an fdo.TO1 call, at the select of a delay, or not at
\* all (the loop is over, or the select finds ctx.Done() closed already).
RECURSIVE TO1Pos(_, _, _, _)
TO1Pos(dirs, di, ui, done) ==
    IF di > Len(dirs) THEN [pc |-> "over", d |-> di, u |-> 1]
    ELSE IF dirs[di].Bypass THEN TO1Pos(dirs, di + 1, 1, done)
    ELSE IF ui <= Len(dirs[di].URLs) THEN [pc |-> "to1", d |-> di, u |-> ui]
    ELSE IF dirs[di].Delay # 0
    THEN [pc |-> IF done THEN "ctx.Done" ELSE "delay", d |-> di, u |-> ui]
    ELSE TO1Pos(dirs, di + 1, 1, done)

\* Mutant of TO2Candidates: the blob's URLs are put in front.
TO2CandidatesBlobFirst(urls, blob) == BlobURLs(blob) \o urls

\* Mutant of TO2Candidates: a blob replaces the URLs collected before.
TO2CandidatesDropsBypass(urls, blob) == IF blob # <<>> THEN BlobURLs(blob) ELSE urls

\* The candidate list after the loop over the blob's owner addresses: the
\* blob's URLs are appended to the URLs collected before.
TO2Candidates(urls, blob) == urls \o BlobURLs(blob)

\* Mutant of AfterTO1Case: the rvOnly check is missing.
AfterTO1CaseIgnoresRvOnly(rv, urls) == IF urls = <<>> THEN "exhausted" ELSE "to2"

\* What transferOwnership does after the candidate list is complete: print
\* and return when rvOnly, else walk the list (nothing to walk: return nil).
AfterTO1Case(rv, urls) ==
    IF rv THEN "rvOnly" ELSE IF urls = <<>> THEN "exhausted" ELSE "to2"

\* transferOwnership after the TO1 loop, up to the first fdo.TO2 call.
AfterTO1(blob, urls) ==
    /\ to1d' = blob
    /\ to2URLs' = TO2Candidates(urls, blob)
    /\ IF AfterTO1Case(rvOnly, TO2Candidates(urls, blob)) = "rvOnly"
       THEN /\ Return(<<>>, "rvOnly",
                      IF blob # <<>> THEN <<[text |-> "TO1 Blob", blob |-> blob]>> ELSE <<>>)
            /\ t' = t
       ELSE IF AfterTO1Case(rvOnly, TO2Candidates(urls, blob)) = "exhausted"
       THEN Return(<<>>, "exhausted", <<>>) /\ t' = t
       ELSE /\ pc' = "to2"
            /\ t' = 1
            /\ UNCHANGED <<newDC, exit, stdout, storedCred, deviceState, updateCredCalls, err>>

\* The TO1 loop moves on to position pos; blob is the value to1d holds.
Continue(pos, blob, urls) ==
    /\ d' = pos.d
    /\ u' = pos.u
    /\ IF pos.pc = "over" THEN AfterTO1(blob, urls)
       ELSE IF pos.pc = "ctx.Done"
       THEN /\ Return(<<>>, "ctx.Done", <<>>)
            /\ to1d' = blob
            /\ to2URLs' = urls
            /\ t' = t
       ELSE /\ pc' = pos.pc
            /\ to1d' = blob
            /\ to2URLs' = urls
            /\ UNCHANGED <<t, newDC, exit, stdout, storedCred, deviceState,
                           updateCredCalls, err>>

\* The delayLog after the TO1 loop moved on to pos: a select that finds
\* ctx.Done() closed already was entered and ended at once.
Suspensions(log, pos) ==
    IF pos.pc = "ctx.Done"
    THEN Append(log, [d |-> pos.d, waited |-> 0, by |-> "ctx.Done"])
    ELSE log

\* doOnboard: readCred fails.
DoOnboardReadCredFails ==
    /\ pc = "start"
    /\ pc' = "done"
    /\ err' = "readCred"
    /\ UNCHANGED <<directives, rvOnly, cancelled, cancelAtStart, d, u, to1d, to2URLs, t,
                   to1Log, to2Log, newDC, exit, stdout, storedCred, deviceState,
                   updateCredCalls>>
    /\ UNCHANGED <<waited, delayLog, stuck, lastTO2, fsims, cfgVars>>

\* doOnboard: kex.CipherSuiteByName does not know the cipher suite.
DoOnboardInvalidCipherSuite ==
    /\ pc = "start"
    /\ pc' = "done"
    /\ err' = "invalid key exchange cipher suite"
    /\ UNCHANGED <<directives, rvOnly, cancelled, cancelAtStart, d, u, to1d, to2URLs, t,
                   to1Log, to2Log, newDC, exit, stdout, storedCred, deviceState,
                   updateCredCalls>>
    /\ UNCHANGED <<waited, delayLog, stuck, lastTO2, fsims, cfgVars>>

\* doOnboard calls transferOwnership, which collects the bypass URLs and
\* enters the TO1 loop.
DoOnboard ==
    /\ pc = "start"
    /\ Continue(TO1Pos(directives, 1, 1, cancelled), <<>>, BypassURLs(directives))
    /\ delayLog' = Suspensions(delayLog, TO1Pos(directives, 1, 1, cancelled))
    /\ UNCHANGED <<directives, rvOnly, cancelled, cancelAtStart, to1Log, to2Log>>
    /\ UNCHANGED <<waited, stuck, lastTO2, fsims, cfgVars>>

\* fdo.TO1 on URL u of directive d returns a blob: break TO1.
TO1Succeeds ==
    /\ pc = "to1"
    /\ ~stuck
    /\ \E rv \in Blobs :
          /\ to1Log' = Append(to1Log, [d |-> d, u |-> u,
                                      url |-> URLString(directives[d].URLs[u]), ok |-> TRUE])
          /\ AfterTO1(<<[RV |-> rv]>>, to2URLs)
    /\ UNCHANGED <<directives, rvOnly, cancelled, cancelAtStart, d, u, to2Log>>
    /\ UNCHANGED <<waited, delayLog, stuck, lastTO2, fsims, cfgVars>>

\* fdo.TO1 on URL u of directive d returns an error: continue.
TO1Fails ==
    /\ pc = "to1"
    /\ ~stuck
    /\ to1Log' = Append(to1Log, [d |-> d, u |-> u,
                                url |-> URLString(directives[d].URLs[u]), ok |-> FALSE])
    /\ Continue(TO1Pos(directives, d, u + 1, cancelled), <<>>, to2URLs)
    /\ delayLog' = Suspensions(delayLog, TO1Pos(directives, d, u + 1, cancelled))
    /\ UNCHANGED <<directives, rvOnly, cancelled, cancelAtStart, to2Log>>
    /\ UNCHANGED <<waited, stuck, lastTO2, fsims, cfgVars>>

\* The select of the delay takes the ctx.Done() case: return nil.
DelayCancelled ==
    /\ pc = "delay"
    /\ cancelled
    /\ Return(<<>>, "ctx.Done", <<>>)
    /\ delayLog' = Append(delayLog, [d |-> d, waited |-> waited, by |-> "ctx.Done"])
    /\ waited' = 0
    /\ UNCHANGED <<directives, rvOnly, cancelled, cancelAtStart, d, u, to1d, to2URLs, t,
                   to1Log, to2Log>>
    /\ UNCHANGED <<stuck, lastTO2, fsims, cfgVars>>

\* Mutant of TimerFired: the timer runs with the 25% jitter the comment at
\* the select allows, and may fire early.
TimerFiredWithJitter(elapsed, delay) == 4 * elapsed >= 3 * delay

\* The channel of time.After(delay) is readable once delay has elapsed.
TimerFired(elapsed, delay) == elapsed >= delay

\* Time passes while the select of the delay blocks.
Tick ==
    /\ pc = "delay"
    /\ ~TimerFired(waited, directives[d].Delay)
    /\ waited' = waited + 1
    /\ UNCHANGED <<directives, rvOnly, cancelled, cancelAtStart, pc, d, u, to1d, to2URLs, t,
                   to1Log, to2Log, newDC, exit, stdout, storedCred, deviceState,
                   updateCredCalls, err>>
    /\ UNCHANGED <<delayLog, stuck, lastTO2, fsims, cfgVars>>

\* The select of the delay takes the time.After case: next directive.
DelayElapsed ==
    /\ pc = "delay"
    /\ TimerFired(waited, directives[d].Delay)
    /\ Continue(TO1Pos(directives, d + 1, 1, cancelled), to1d, to2URLs)
    /\ delayLog' = Suspensions(Append(delayLog, [d |-> d, waited |-> waited,
                                                 by |-> "time.After"]),
                               TO1Pos(directives, d + 1, 1, cancelled))
    /\ waited' = 0
    /\ UNCHANGED <<directives, rvOnly, cancelled, cancelAtStart, to1Log, to2Log>>
    /\ UNCHANGED <<stuck, lastTO2, fsims, cfgVars>>

\* What fdo.TO2 can return: a credential, no credential (the credential
\* reuse protocol), or an error.
TO2Results == {[cred |-> <<NewCred>>, err |-> FALSE],
               [cred |-> <<>>, err |-> FALSE],
               [cred |-> <<>>, err |-> TRUE]}

\* transferOwnership2: nil on an error, else the credential fdo.TO2 returned.
transferOwnership2(res) == IF res.err THEN <<>> ELSE res.cred

\* How an fdo.TO2 call ended.
TO2Kind(res) == IF res.err THEN "error" ELSE IF res.cred = <<>> THEN "reuse" ELSE "cred"

\* Mutant of TO2Step: the loop does not return on a credential while
\* candidates are left.
TO2StepNoStop(dc, i, n) ==
    IF i < n THEN "next" ELSE IF dc # <<>> THEN "newDC" ELSE "exhausted"

\* The TO2 loop after transferOwnership2 returned dc for candidate i of n.
TO2Step(dc, i, n) ==
    IF dc # <<>> THEN "newDC" ELSE IF i < n THEN "next" ELSE "exhausted"

\* One round of the TO2 loop: transferOwnership2 on candidate t.
TO2Attempt ==
    /\ pc = "to2"
    /\ ~stuck
    /\ fsims' = DeviceModules(dlDir, echoCmds, uploads, wgetDir, Len(to2Log) + 1)
    /\ \E res \in TO2Results :
          LET dc == transferOwnership2(res)
              step == TO2Step(dc, t, Len(to2URLs))
          IN  /\ to2Log' = Append(to2Log, [i |-> t, url |-> to2URLs[t], dc |-> dc])
              /\ lastTO2' = TO2Kind(res)
              /\ IF step = "newDC" THEN Return(dc, "newDC", <<>>) /\ t' = t
                 ELSE IF step = "next"
                 THEN /\ t' = t + 1
                      /\ UNCHANGED <<pc, newDC, exit, stdout, storedCred, deviceState,
                                     updateCredCalls, err>>
                 ELSE Return(<<>>, "exhausted", <<>>) /\ t' = t
    /\ UNCHANGED <<directives, rvOnly, cancelled, cancelAtStart, d, u, to1d, to2URLs, to1Log>>
    /\ UNCHANGED <<waited, delayLog, stuck, cfgVars>>

\* The fdo.TO1 or fdo.TO2 call in progress hangs: its context is
\* context.TODO(), so nothing makes it return.
Hang ==
    /\ pc \in {"to1", "to2"}
    /\ ~stuck
    /\ stuck' = TRUE
    /\ UNCHANGED <<directives, rvOnly, cancelled, cancelAtStart, pc, d, u, to1d, to2URLs, t,
                   to1Log, to2Log, newDC, exit, stdout, storedCred, deviceState,
                   updateCredCalls, err>>
    /\ UNCHANGED <<waited, delayLog, lastTO2, fsims, cfgVars>>

\* The caller's context is cancelled.
Cancel ==
    /\ pc # "done"
    /\ ~cancelled
    /\ cancelled' = TRUE
    /\ cancelAtStart' = (pc \in {"cmd", "start"})
    /\ UNCHANGED <<directives, rvOnly, pc, d, u, to1d, to2URLs, t, to1Log, to2Log, newDC,
                   exit, stdout, storedCred, deviceState, updateCredCalls, err>>
    /\ UNCHANGED <<waited, delayLog, stuck, lastTO2, fsims, cfgVars>>

Next ==
    \/ DoOnboardReadCredFails
    \/ DoOnboardInvalidCipherSuite
    \/ DoOnboard
    \/ TO1Succeeds
    \/ TO1Fails
    \/ DelayCancelled
    \/ Tick
    \/ DelayElapsed
    \/ TO2Attempt
    \/ Hang
    \/ Cancel

Spec == Init /\ [][Next]_vars

(***************************************************************************)
(* RunE: the onboard command from its start                                *)
(***************************************************************************)
\* One directive to rendezvous with after a delay, or one to bypass.
ModuleDirectiveLists ==
    {<<[Bypass |-> FALSE, URLs |-> <<RvURL1>>, Delay |-> 5]>>,
     <<[Bypass |-> TRUE, URLs |-> <<RvURL1, RvURL2>>, Delay |-> 0]>>}

\* loadDeviceStatus: the state the credential store holds.
loadDeviceStatus(state) == state

\* Mutant of RunEGate: --resale starts the onboarding in every state.
RunEGateResaleAnyState(status, rs) ==
    IF status = "PRE_TO1" \/ rs THEN "doOnboard"
    ELSE IF status = "IDLE" THEN "idle"
    ELSE IF status = "PRE_DI" THEN "not initialized"
    ELSE "invalid"

\* The if chain of RunE over the device status.
RunEGate(status, rs) ==
    IF status = "PRE_TO1" \/ (status = "IDLE" /\ rs) THEN "doOnboard"
    ELSE IF status = "IDLE" THEN "idle"
    ELSE IF status = "PRE_DI" THEN "not initialized"
    ELSE "invalid"

InitRunE ==
    /\ directives \in ModuleDirectiveLists
    /\ rvOnly \in BOOLEAN
    /\ pc = "cmd"
    /\ deviceState \in DeviceStates
    /\ deviceStatus = ""
    /\ NothingDone
    /\ dlDir = ""
    /\ echoCmds = FALSE
    /\ uploads = NoFiles
    /\ wgetDir = ""
    /\ resale \in BOOLEAN

\* RunE returns the error e before it has loaded the device status.
RunEFails(e) ==
    /\ pc = "cmd"
    /\ pc' = "done"
    /\ err' = e
    /\ UNCHANGED <<directives, rvOnly, cancelled, cancelAtStart, d, u, to1d, to2URLs, t,
                   to1Log, to2Log, newDC, exit, stdout, storedCred, deviceState,
                   updateCredCalls, waited, delayLog, stuck, lastTO2, fsims, cfgVars>>

\* validateOnboardFlags rejects the flags.
RunEValidationError == RunEFails("Validation error")

\* tpm_utils.TpmOpen fails.
RunETpmOpenFails == RunEFails("TpmOpen")

\* loadDeviceStatus fails.
RunELoadDeviceStatusFails == RunEFails("load device status failed")

\* RunE loads the device status and calls doOnboard, or returns.
RunE ==
    /\ pc = "cmd"
    /\ deviceStatus' = loadDeviceStatus(deviceState)
    /\ LET gate == RunEGate(loadDeviceStatus(deviceState), resale)
       IN  /\ pc' = IF gate = "doOnboard" THEN "start" ELSE "done"
           /\ stdout' = IF gate = "idle"
                         THEN <<[text |-> "FDO in Idle State. Device Onboarding already completed",
                                 blob |-> <<>>]>>
                         ELSE stdout
           /\ err' = IF gate = "not initialized"
                      THEN "Device has not been properly initialized: run device-init first"
                      ELSE IF gate = "invalid" THEN "Device state is invalid"
                      ELSE ""
    /\ UNCHANGED <<directives, rvOnly, cancelled, cancelAtStart, d, u, to1d, to2URLs, t,
                   to1Log, to2Log, newDC, exit, storedCred, deviceState,
                   updateCredCalls, waited, delayLog, stuck, lastTO2, fsims>>
    /\ UNCHANGED <<dlDir, echoCmds, uploads, wgetDir, resale, call>>

NextRunE ==
    \/ RunEValidationError
    \/ RunETpmOpenFails
    \/ RunELoadDeviceStatusFails
    \/ RunE
    \/ Next

SpecRunE == InitRunE /\ [][NextRunE]_vars

(***************************************************************************)
(* The walk under every combination of the service-info module flags       *)
(***************************************************************************)
InitModules ==
    /\ directives \in ModuleDirectiveLists
    /\ rvOnly = FALSE
    /\ AtDoOnboard
    /\ NothingDone
    /\ dlDir \in DownloadDirs
    /\ echoCmds \in BOOLEAN
    /\ uploads \in {NoFiles, Set(NoFiles, "uploads")}
    /\ wgetDir \in WgetDirs
    /\ resale = FALSE

SpecModules == InitModules /\ [][Next]_vars

(***************************************************************************)
(* The download and the wget module map the names a peer sends             *)
(***************************************************************************)
\* The paths of at most n elements drawn from parts, rooted or not.
Paths(parts, n) ==
    LET unrooted == {JoinStrings(q, "/") : q \in SeqsUpTo(parts, n) \ {<<>>}}
    IN  unrooted \cup {"/" \o path : path \in unrooted}

Names == Paths(NameParts, MaxNameParts)

InitNameToPath ==
    /\ directives = <<>>
    /\ rvOnly = FALSE
    /\ AtDoOnboard
    /\ NothingDone
    /\ dlDir \in DownloadDirs
    /\ wgetDir \in WgetDirs
    /\ echoCmds = FALSE
    /\ uploads = NoFiles
    /\ resale = FALSE

\* fsim.Download asks where the file named by the peer goes.
DownloadNameToPath ==
    /\ call = NoCall
    /\ dlDir # ""
    /\ \E name \in Names :
          call' = [fn |-> "fdo.download", arg |-> <<name>>,
                   ret |-> <<NameToPath(dlDir, name)>>]
    /\ UNCHANGED <<walkVars, flagVars>>

\* fsim.Wget asks where the file named by the peer goes.
WgetNameToPath ==
    /\ call = NoCall
    /\ wgetDir # ""
    /\ \E name \in Names :
          call' = [fn |-> "fdo.wget", arg |-> <<name>>,
                   ret |-> <<NameToPath(wgetDir, name)>>]
    /\ UNCHANGED <<walkVars, flagVars>>

NextNameToPath == DownloadNameToPath \/ WgetNameToPath

SpecNameToPath == InitNameToPath /\ [][NextNameToPath]_vars

(***************************************************************************)
(* transferOwnership resolves one owner address of the blob                *)
(***************************************************************************)
InitTo2Addr ==
    /\ directives = <<>>
    /\ rvOnly = FALSE
    /\ AtDoOnboard
    /\ NothingDone
    /\ NoFlags

\* One round of the loop over to1d.Payload.Val.RV.
ResolveTo2Addr ==
    /\ call = NoCall
    /\ \E to2Addr \in To2Addrs :
          call' = [fn |-> "to2Addr", arg |-> <<to2Addr>>, ret |-> <<To2AddrURLs(to2Addr)>>]
    /\ UNCHANGED <<walkVars, flagVars>>

NextTo2Addr == ResolveTo2Addr

SpecTo2Addr == InitTo2Addr /\ [][NextTo2Addr]_vars

(***************************************************************************)
(* The upload module opens the paths a peer asks for                       *)
(***************************************************************************)
OpenPaths == Paths(OpenParts, MaxOpenParts)

InitFsVar ==
    /\ directives = <<>>
    /\ rvOnly = FALSE
    /\ AtDoOnboard
    /\ NothingDone
    /\ NoFlags

\* The flag parser hands one --upload value to fsVar.Set.
SetUpload ==
    /\ call = NoCall
    /\ \E paths \in UploadFlags : uploads' = Set(uploads, paths)
    /\ UNCHANGED <<walkVars, dlDir, echoCmds, wgetDir, resale, deviceStatus, call>>

\* fsim.Upload opens a path: fsVar.Open, whose os.Open call, when it makes
\* one, succeeds or fails.
OpenUpload ==
    /\ call = NoCall
    /\ \E path \in OpenPaths, osErr \in {"", "os.Open"} :
          LET r == Open(uploads, path)
          IN  call' = [fn |-> "Open", arg |-> <<path>>,
                       ret |-> <<[err |-> IF r.osOpen # <<>> THEN osErr ELSE r.err,
                                  osOpen |-> r.osOpen]>>]
    /\ UNCHANGED <<walkVars, flagVars>>

NextFsVar == SetUpload \/ OpenUpload

SpecFsVar == InitFsVar /\ [][NextFsVar]_vars

(***************************************************************************)
(* Properties                                                              *)
(***************************************************************************)
Last(s) == s[Len(s)]

\* Position <<di, ui>> comes before position <<dj, uj>> in list order.
Before(p, q) == p[1] < q[1] \/ (p[1] = q[1] /\ p[2] < q[2])

\* The <<directive, URL>> positions of the directives with the given flag.
Positions(bypass) ==
    UNION {{<<di, ui>> : ui \in 1..Len(directives[di].URLs)} :
           di \in {x \in 1..Len(directives) : directives[x].Bypass = bypass}}

PosURL(p) == URLString(directives[p[1]].URLs[p[2]])

\* The transfer walk got a credential from its last attempt.
Succeeded == to2Log # <<>> /\ Last(to2Log).dc # <<>>

\* C1: the TO2 walk attempts the candidates in list order, each list
\* position at most once; only the last attempt can have returned a
\* credential, and then that credential is the result and the walk is over
\* with the later candidates untried; after an attempt without a credential
\* the next candidate is up, and the walk ends without a result only when
\* all candidates were attempted.
C1_TransferWalkInOrderUntilSuccess ==
    /\ \A k \in 1..Len(to2Log) :
          /\ to2Log[k].i = k
          /\ k <= Len(to2URLs)
          /\ to2Log[k].url = to2URLs[k]
          /\ (k < Len(to2Log) => to2Log[k].dc = <<>>)
    /\ pc = "to2" => ~Succeeded /\ t = Len(to2Log) + 1 /\ t <= Len(to2URLs)
    /\ Succeeded => pc = "done" /\ newDC = Last(to2Log).dc /\ exit = "newDC"
    /\ (pc = "done" /\ ~Succeeded /\ exit \in {"newDC", "exhausted"})
          => newDC = <<>> /\ Len(to2Log) = Len(to2URLs)

C1_Witness ==
    /\ pc = "done"
    /\ Succeeded
    /\ Len(to2Log) >= 2
    /\ Len(to2Log) < Len(to2URLs)

\* C2: TO1 is attempted only on URLs of non-bypass directives, in directive
\* order and URL order with no position skipped, and the first success ends
\* the TO1 loop: only the last attempt can be a success, and after it the
\* loop is over with the blob in hand.
C2_RendezvousWalkInOrderUntilSuccess ==
    /\ \A k \in 1..Len(to1Log) :
          LET p == <<to1Log[k].d, to1Log[k].u>>
          IN  /\ p \in Positions(FALSE)
              /\ to1Log[k].url = PosURL(p)
              /\ (k < Len(to1Log) => ~to1Log[k].ok)
              /\ \A j \in 1..(k - 1) : Before(<<to1Log[j].d, to1Log[j].u>>, p)
              /\ \A q \in Positions(FALSE) :
                    Before(q, p) => \E j \in 1..(k - 1) : <<to1Log[j].d, to1Log[j].u>> = q
    /\ (to1Log # <<>> /\ Last(to1Log).ok) => pc \in {"to2", "done"} /\ to1d # <<>>
    /\ pc = "to1" => \A q \in Positions(FALSE) :
                        Before(q, <<d, u>>) <=> \E j \in 1..Len(to1Log) :
                                                   <<to1Log[j].d, to1Log[j].u>> = q

C2_Witness ==
    /\ pc = "done"
    /\ to1Log # <<>>
    /\ Last(to1Log).ok
    /\ \E q \in Positions(FALSE) : q[1] = Last(to1Log).d /\ q[2] > Last(to1Log).u
    /\ \E q \in Positions(FALSE) : q[1] > Last(to1Log).d

\* How many entries of the attempt log are about the URL.
Attempts(log, url) == Cardinality({k \in 1..Len(log) : log[k].url = url})

RECURSIVE BypassOffset(_)
BypassOffset(di) ==
    IF di = 1 THEN 0
    ELSE BypassOffset(di - 1)
         + (IF directives[di - 1].Bypass THEN Len(directives[di - 1].URLs) ELSE 0)

BypassCount == BypassOffset(Len(directives) + 1)

BypassTried ==
    \A p \in Positions(TRUE) :
       LET k == BypassOffset(p[1]) + p[2]
       IN  \/ k <= Len(to2Log) /\ to2Log[k].url = PosURL(p)
           \/ \E j \in 1..Len(to2Log) : j < k /\ to2Log[j].dc # <<>>

\* C4 as claimed: when transferOwnership has returned in a session that is
\* not rvOnly, the bypass URLs were tried by the TO2 walk, however the TO1
\* loop ended, cancellation included.
C4_BypassAlwaysTried ==
    (pc = "done" /\ exit # "" /\ ~rvOnly) => BypassTried

\* C4 as amended: the bypass URLs were tried by the TO2 walk when the TO1
\* loop ended in a success, without any non-bypass directive or with all
\* attempts failed; when it ended at a delay whose select saw ctx.Done(),
\* no TO2 attempt was made at all.
C4_BypassTriedUnlessCancelled ==
    /\ (pc = "done" /\ exit # "" /\ exit # "ctx.Done" /\ ~rvOnly) => BypassTried
    /\ (pc = "done" /\ exit = "ctx.Done") => to2Log = <<>> /\ cancelled

\* All TO1 attempts failed and the TO2 walk went through two bypass URLs.
C4_Witness ==
    /\ pc = "done"
    /\ ~rvOnly
    /\ exit = "exhausted"
    /\ to1Log # <<>>
    /\ BypassCount >= 2
    /\ Len(to2Log) = BypassCount

\* C5: with ctx done before doOnboard begins and a non-bypass directive
\* with a positive delay in the list, no TO1 attempt and no TO2 attempt is
\* made and there is no result.
C5_CancelledAtStartNoAttempt ==
    (cancelAtStart /\ \E di \in 1..Len(directives) :
                         ~directives[di].Bypass /\ directives[di].Delay > 0)
       => to1Log = <<>> /\ to2Log = <<>> /\ newDC = <<>> /\ updateCredCalls = 0

\* C6: updateCred is called, and the stored credential and state change,
\* only in a session that is not rvOnly after a TO2 attempt returned a
\* credential (and then that credential is stored, with state IDLE);
\* when transferOwnership returned without one, the store is as it was and
\* doOnboard returned no error.
C6_UpdateOnlyAfterSuccess ==
    /\ (updateCredCalls # 0 \/ storedCred # <<OldCred>> \/ deviceState # "PRE_TO1")
          => /\ ~rvOnly
             /\ Succeeded
             /\ pc = "done"
             /\ updateCredCalls = 1
             /\ storedCred = Last(to2Log).dc
             /\ deviceState = "IDLE"
    /\ (pc = "done" /\ exit # "" /\ (rvOnly \/ ~Succeeded))
          => /\ storedCred = <<OldCred>>
             /\ deviceState = "PRE_TO1"
             /\ updateCredCalls = 0
             /\ err = ""

\* Two candidates were tried, none returned a credential.
C6_Witness ==
    /\ pc = "done"
    /\ ~rvOnly
    /\ exit = "exhausted"
    /\ Len(to2Log) >= 2
    /\ storedCred = <<OldCred>>

\* C7: once ctx is done, no updateCred call is made.  (Cancel is not taken
\* after doOnboard has returned, so a call in a state with ctx done came
\* after the cancellation.)
C7_NoUpdateAfterCancel == cancelled => updateCredCalls = 0

\* C8: in an rvOnly session no TO2 attempt is made and nothing is stored;
\* transferOwnership returns right after the candidate list is complete,
\* and it has printed the blob exactly when a TO1 attempt returned one.
C8_RvOnlyNoTransfer ==
    rvOnly =>
       /\ to2Log = <<>>
       /\ pc # "to2"
       /\ updateCredCalls = 0
       /\ storedCred = <<OldCred>>
       /\ deviceState = "PRE_TO1"
       /\ (pc = "done" /\ exit # "") =>
             /\ newDC = <<>>
             /\ exit \in {"rvOnly", "ctx.Done"}
             /\ IF to1Log # <<>> /\ Last(to1Log).ok
                THEN /\ exit = "rvOnly"
                     /\ to1d # <<>>
                     /\ stdout = <<[text |-> "TO1 Blob", blob |-> to1d]>>
                     /\ Len(to2URLs) = BypassCount + Len(BlobURLs(to1d))
                ELSE to1d = <<>> /\ stdout = <<>>

C8_Witness ==
    /\ rvOnly
    /\ pc = "done"
    /\ to1d # <<>>
    /\ Len(to2URLs) >= 2
    /\ stdout # <<>>

\* The scenario of C9: one bypass directive with two URLs, rvOnly.
C9_Scenario ==
    /\ rvOnly
    /\ Len(directives) = 1
    /\ directives[1].Bypass
    /\ directives[1].URLs = <<RvURL1, RvURL2>>

\* C9 as claimed: in the scenario doOnboard ends with a blob obtained and
\* printed, and without a TO2 attempt.
C9_BypassRvOnlyReportsBlob ==
    (C9_Scenario /\ pc = "done" /\ err = "")
       => /\ to1d # <<>>
          /\ stdout = <<[text |-> "TO1 Blob", blob |-> to1d]>>
          /\ to2Log = <<>>

\* C9 as amended: in the scenario no TO1 attempt is made (the TO1 loop skips
\* bypass directives), so no blob is obtained or printed; the two URLs are
\* the candidate list, and no TO2 attempt is made.
C9_BypassRvOnlyNoBlob ==
    C9_Scenario =>
       /\ to1Log = <<>>
       /\ to2Log = <<>>
       /\ to1d = <<>>
       /\ (pc = "done" /\ err = "") =>
             /\ exit = "rvOnly"
             /\ stdout = <<>>
             /\ to2URLs = <<"https://owner.example:443", "http://rv.example:80">>
             /\ newDC = <<>>
             /\ updateCredCalls = 0

C9_Witness == C9_Scenario /\ pc = "done" /\ exit = "rvOnly"

\* The owner addresses of the blob to1d holds.
RVOf(blob) == IF blob = <<>> THEN <<>> ELSE blob[1].RV

\* The URLs each owner address of the pools contributes.
AddrURLs == [a \in UNION {{rv[j] : j \in 1..Len(rv)} : rv \in Blobs} |-> To2AddrURLs(a)]

\* The number of URLs the owner addresses before address j contribute,
\* where address i contributes the URLs per[i].
RECURSIVE BlobOffset(_, _)
BlobOffset(per, j) == IF j = 1 THEN 0 ELSE BlobOffset(per, j - 1) + Len(per[j - 1])

\* The loop over the blob's owner addresses has run.
BlobAppended == pc = "to2" \/ (pc = "done" /\ exit \in {"rvOnly", "newDC", "exhausted"})

\* C10: the candidate list holds the bypass URLs first, each at the place
\* its directive and its index in the directive give it; once the blob's
\* addresses are in, their URLs follow, address by address in the order of
\* the blob; and the list holds nothing else.
C10_BypassBeforeBlobInOrder ==
    /\ (pc = "start" \/ err # "") => to2URLs = <<>>
    /\ (pc # "start" /\ err = "") =>
          LET rv == RVOf(to1d)
              per == [j \in 1..Len(rv) |-> AddrURLs[rv[j]]]
          IN  /\ Len(to2URLs) = BypassCount
                                + (IF BlobAppended THEN BlobOffset(per, Len(rv) + 1) ELSE 0)
              /\ \A p \in Positions(TRUE) : to2URLs[BypassOffset(p[1]) + p[2]] = PosURL(p)
              /\ BlobAppended =>
                    \A j \in 1..Len(rv) :
                       \A k \in 1..Len(per[j]) :
                          to2URLs[BypassCount + BlobOffset(per, j) + k] = per[j][k]

C10_Witness ==
    /\ pc = "to2"
    /\ BypassCount >= 2
    /\ Len(RVOf(to1d)) >= 2
    /\ Len(to2URLs) >= BypassCount + 3
\* path lies in the directory dir, or is dir itself.
Inside(dir, path) == path = dir \/ HasPrefix(path, dir \o "/")

\* C11: every name a peer sends resolves to a path inside the directory
\* configured for the module, and "../../etc/passwd" against
\* "/data/downloads" resolves to "/data/downloads/passwd".
C11_NameToPathStaysInside ==
    /\ call.fn = "fdo.download" => Inside(dlDir, call.ret[1])
    /\ call.fn = "fdo.wget" => Inside(wgetDir, call.ret[1])
    /\ (call.fn = "fdo.download" /\ dlDir = "/data/downloads"
            /\ call.arg = <<"../../etc/passwd">>)
        => call.ret = <<"/data/downloads/passwd">>

\* The directories above name, from its first element down to its parent.
DirsAbove(name) ==
    LET elems == Split(name, "/")
    IN  {JoinStrings(SubSeq(elems, 1, k), "/") : k \in 1..(Len(elems) - 1)}

\* The registered names that are the canonical name of path or a directory
\* above it.
RegisteredFor(path) ==
    ({pathToName(path, "")} \cup DirsAbove(pathToName(path, ""))) \cap DOMAIN uploads

\* The registered directories properly above the canonical name of path.
RegisteredAbove(path) == DirsAbove(pathToName(path, "")) \cap DOMAIN uploads

\* An Open call was made on an fsVar without root passthrough.
OpenedWithoutRoot == call.fn = "Open" /\ "/" \notin DOMAIN uploads

\* C12 as stated: without root passthrough, whatever Open hands to os.Open is
\* the real path registered under the canonical name of the request or
\* under a directory above it, and a request for which none of these is
\* registered fails with not-found.
C12_UnregisteredIsNotFound ==
    OpenedWithoutRoot =>
        LET r == call.ret[1]
            names == RegisteredFor(call.arg[1])
        IN  /\ r.osOpen # <<>> => \E k \in names : r.osOpen[1] = uploads[k]
            /\ names = {} => r.err = "fs.ErrNotExist" /\ r.osOpen = <<>>

\* C12 amended: the same for well-formed requests; a request that is not
\* well-formed fails with the invalid-path error and opens nothing.
C12_OpenStaysInRegistered ==
    OpenedWithoutRoot =>
        LET path == call.arg[1]
            r == call.ret[1]
            names == RegisteredFor(path)
        IN  /\ r.osOpen # <<>> => \E k \in names : r.osOpen[1] = uploads[k]
            /\ (ValidPath(path) /\ names = {}) => r.err = "fs.ErrNotExist" /\ r.osOpen = <<>>
            /\ ~ValidPath(path) => r.err = "fs.ErrInvalid" /\ r.osOpen = <<>>

\* An Open that succeeds through a directory above the requested path.
C12_Witness ==
    /\ OpenedWithoutRoot
    /\ call.ret[1].err = ""
    /\ call.arg[1] \notin DOMAIN uploads
    /\ DOMAIN uploads # {}

\* C13 as stated: without root passthrough, Open of the rooted path
\* "/etc/shadow" fails with not-found.
C13_RootedPathNotFound ==
    (OpenedWithoutRoot /\ call.arg = <<"/etc/shadow">>)
        => call.ret[1].err = "fs.ErrNotExist"

\* C13 amended: without root passthrough, Open of a rooted path fails with
\* the invalid-path error and opens nothing; the unrooted "etc/shadow"
\* fails with not-found when neither it nor "etc" is registered.
C13_RootedPathInvalid ==
    OpenedWithoutRoot =>
        /\ IsAbs(call.arg[1])
            => call.ret[1] = [err |-> "fs.ErrInvalid", osOpen |-> <<>>]
        /\ (call.arg = <<"etc/shadow">> /\ {"etc", "etc/shadow"} \cap DOMAIN uploads = {})
            => call.ret[1] = [err |-> "fs.ErrNotExist", osOpen |-> <<>>]

\* "/etc/shadow" was asked for and rejected as invalid.
C13_Witness ==
    /\ OpenedWithoutRoot
    /\ call.arg = <<"/etc/shadow">>
    /\ call.ret[1].err = "fs.ErrInvalid"

\* The shortest and the longest of a set of names.
Shortest(names) == CHOOSE k \in names : \A other \in names : Len(k) <= Len(other)
Longest(names) == CHOOSE k \in names : \A other \in names : Len(k) >= Len(other)

\* Several registered directories enclose the requested path, the path
\* itself is not registered, and Open went on to os.Open.
OpenedUnderSeveral ==
    /\ OpenedWithoutRoot
    /\ ValidPath(call.arg[1])
    /\ pathToName(call.arg[1], "") \notin DOMAIN uploads
    /\ Cardinality(RegisteredAbove(call.arg[1])) > 1
    /\ call.ret[1].osOpen # <<>>

\* C19 as stated: Open opens the real path of the shortest enclosing
\* registered directory.
C19_ShortestEnclosingWins ==
    OpenedUnderSeveral
        => call.ret[1].osOpen[1] = uploads[Shortest(RegisteredAbove(call.arg[1]))]

\* C19 amended: Open opens the real path of the longest enclosing
\* registered directory, the one nearest to the requested path.
C19_NearestEnclosingWins ==
    OpenedUnderSeveral
        => call.ret[1].osOpen[1] = uploads[Longest(RegisteredAbove(call.arg[1]))]

\* A file below "uploads/reports" is opened while "uploads" is registered too.
C19_Witness ==
    /\ OpenedUnderSeveral
    /\ call.arg = <<"uploads/reports/q1.csv">>
    /\ call.ret[1].err = ""

\* The text of the non-zero ports and of the valid IP addresses of To2Addrs.
PortText == (8080 :> "8080") @@ (65535 :> "65535")
IPText == (<<192, 0, 2, 1>> :> "192.0.2.1") @@ (<<10, 0, 0, 255>> :> "10.0.0.255")

\* The reference resolution of one owner address.
ReferenceURLs(a) ==
    IF a.TransportProtocol \notin {"HTTP", "HTTPS"} THEN <<>>
    ELSE IF a.DNSAddress = <<>> /\ a.IPAddress = <<>> THEN <<>>
    ELSE LET http == a.TransportProtocol = "HTTP"
             base == IF http THEN "http://" ELSE "https://"
             port == IF a.Port # 0 THEN PortText[a.Port] ELSE IF http THEN "80" ELSE "443"
             byName == IF a.DNSAddress # <<>> /\ a.DNSAddress[1] \in ResolvableNames
                       THEN <<base \o a.DNSAddress[1] \o ":" \o port>>
                       ELSE <<>>
             byIP == IF a.IPAddress # <<>> /\ a.IPAddress[1] \in DOMAIN IPText
                     THEN <<base \o IPText[a.IPAddress[1]] \o ":" \o port>>
                     ELSE <<>>
         IN  byName \o byIP

\* C14: an owner address yields no URL when its protocol is neither HTTP nor
\* HTTPS or when it has neither a DNS name nor an IP address; otherwise a
\* URL for the DNS name iff the name is present and resolvable, then a URL
\* for the IP address iff it is present and valid, each the scheme followed
\* by host:port, the port being the explicit one when non-zero, else 80 for
\* HTTP and 443 for HTTPS.
C14_To2AddrMatchesReference ==
    call.fn = "to2Addr" => call.ret[1] = ReferenceURLs(call.arg[1])

\* An address with a resolvable name, a valid IP address and no port
\* yields two URLs.
C14_Witness ==
    /\ call.fn = "to2Addr"
    /\ call.arg[1].Port = 0
    /\ Len(call.ret[1]) = 2

\* doOnboard has returned from a session that is not rvOnly, after
\* transferOwnership returned.
Returned == pc = "done" /\ ~rvOnly /\ exit # ""

\* The terminal case of such a session.
TerminalCase ==
    IF exit = "newDC" THEN "updated"
    ELSE IF exit = "ctx.Done" THEN "cancelled"
    ELSE IF lastTO2 = "reuse" THEN "no change"
    ELSE "exhausted"

\* What the caller of doOnboard gets to see: the error returned, the
\* output, and the credential store.
Surfaced == [err |-> err, stdout |-> stdout, cred |-> storedCred, state |-> deviceState]

NotUpdatedSurfaced ==
    [err |-> "", stdout |-> <<[text |-> "Credential not updated", blob |-> <<>>]>>,
     cred |-> <<OldCred>>, state |-> "PRE_TO1"]

UpdatedSurfaced ==
    [err |-> "", stdout |-> <<[text |-> "FIDO Device Onboard Complete", blob |-> <<>>]>>,
     cred |-> <<NewCred>>, state |-> "IDLE"]

C16_ModulesFollowFlags ==
    IF to2Log = <<>> THEN fsims = NoModules
    ELSE /\ DOMAIN fsims \subseteq {"fido_alliance", "fdo.download", "fdo.command",
                                     "fdo.upload", "fdo.wget"}
         /\ "fido_alliance" \in DOMAIN fsims
         /\ "fdo.download" \in DOMAIN fsims <=> dlDir # ""
         /\ "fdo.command" \in DOMAIN fsims <=> echoCmds
         /\ "fdo.upload" \in DOMAIN fsims <=> DOMAIN uploads # {}
         /\ "fdo.wget" \in DOMAIN fsims <=> wgetDir # ""
         /\ \A name \in DOMAIN fsims : fsims[name].allocatedBy = Len(to2Log)

\* A second attempt was made with --download and --echo-commands but
\* without --wget-dir and --upload.
C16_Witness ==
    /\ Len(to2Log) = 2
    /\ dlDir # ""
    /\ echoCmds
    /\ wgetDir = ""
    /\ DOMAIN fsims = {"fido_alliance", "fdo.download", "fdo.command"}

\* Every URL of directive di has a failed TO1 attempt, and none succeeded
\* in a directive up to di.
NoSuccessUpTo(di) ==
    /\ \A ui \in 1..Len(directives[di].URLs) :
          \E k \in 1..Len(to1Log) :
             to1Log[k].d = di /\ to1Log[k].u = ui /\ ~to1Log[k].ok
    /\ \A k \in 1..Len(to1Log) : to1Log[k].ok => to1Log[k].d > di

\* C17: the walker suspends after a non-bypass directive exactly when the
\* directive's delay is not zero and no rendezvous attempt has succeeded so
\* far.  A suspension ends by the timer only when the full delay has
\* elapsed; it ends by the cancellation only when ctx is done, and then the
\* walk is over without a result, no later directive is tried and no
\* transfer is attempted.
C17_DelaySuspension ==
    /\ \A i \in 1..Len(delayLog) :
          LET e == delayLog[i]
          IN  /\ ~directives[e.d].Bypass
              /\ directives[e.d].Delay # 0
              /\ NoSuccessUpTo(e.d)
              /\ \A j \in 1..(i - 1) : delayLog[j].d < e.d
              /\ e.by = "time.After" => e.waited >= directives[e.d].Delay
              /\ e.by = "ctx.Done"
                    => /\ cancelled
                       /\ i = Len(delayLog)
                       /\ pc = "done"
                       /\ exit = "ctx.Done"
                       /\ newDC = <<>>
                       /\ to2Log = <<>>
                       /\ \A k \in 1..Len(to1Log) : to1Log[k].d <= e.d
    /\ pc = "delay"
          => /\ ~directives[d].Bypass
             /\ directives[d].Delay # 0
             /\ NoSuccessUpTo(d)
             /\ \A i \in 1..Len(delayLog) : delayLog[i].d < d
    /\ \A di \in 1..Len(directives) :
          (~directives[di].Bypass /\ directives[di].Delay # 0 /\ d > di)
              => \E i \in 1..Len(delayLog) :
                    delayLog[i].d = di /\ delayLog[i].by = "time.After"
    /\ \A di \in 1..Len(directives) :
          (~directives[di].Bypass /\ directives[di].Delay = 0)
              => /\ ~(pc = "delay" /\ d = di)
                 /\ \A i \in 1..Len(delayLog) : delayLog[i].d # di

\* The delay after the first directive elapsed in full, and the delay
\* after the second was cut short by the cancellation.
C17_Witness ==
    /\ Len(delayLog) = 2
    /\ delayLog[1].by = "time.After"
    /\ delayLog[1].waited = directives[1].Delay
    /\ delayLog[2].by = "ctx.Done"
    /\ delayLog[2].waited \in 1..(directives[2].Delay - 1)

\* C18: the cancellation reaches every network call: once ctx is done, the
\* invocation has returned or can take a step; no fdo.TO1 or fdo.TO2 call
\* stays blocked.
C18_CancelReachesNetworkCalls == cancelled => (pc = "done" \/ ENABLED Next)

\* A rendezvous or transfer attempt was made or is being made.
NetworkAttempt == to1Log # <<>> \/ to2Log # <<>> \/ pc \in {"to1", "to2"}

\* C20: doOnboard is entered, and any rendezvous or transfer attempt made,
\* only when the loaded device state is PRE_TO1, or IDLE with --resale;
\* with IDLE and no --resale the command returns no error and attempts
\* nothing; in every other state it returns an error and attempts nothing;
\* the store is written only by the one updateCred call after a transfer
\* that returned a credential, which saves that credential with state IDLE.
C20_DeviceStateGate ==
    /\ (NetworkAttempt \/ pc \in {"start", "delay"} \/ exit # "")
          => (deviceStatus = "PRE_TO1" \/ (deviceStatus = "IDLE" /\ resale))
    /\ (deviceStatus = "IDLE" /\ ~resale)
          => pc = "done" /\ err = "" /\ ~NetworkAttempt
    /\ (deviceStatus \in {"PRE_DI", "RESALE", "ERROR", "UNKNOWN"})
          => pc = "done" /\ err # "" /\ ~NetworkAttempt
    /\ (pc = "done" /\ deviceStatus = "")
          => err # "" /\ ~NetworkAttempt /\ updateCredCalls = 0
    /\ IF updateCredCalls = 0
       THEN /\ storedCred = <<OldCred>>
            /\ deviceStatus # "" => deviceState = deviceStatus
       ELSE /\ updateCredCalls = 1
            /\ ~rvOnly
            /\ Succeeded
            /\ deviceState = "IDLE"
            /\ storedCred = Last(to2Log).dc

\* A device in state IDLE was onboarded again with --resale and its new
\* credential saved.
C20_Witness ==
    /\ deviceStatus = "IDLE"
    /\ resale
    /\ updateCredCalls = 1
    /\ storedCred = <<NewCred>>
    /\ deviceState = "IDLE"

====
